---- MODULE Spec2Model ----
(***************************************************************************)
(* Attention-head pruning of nni: TransformerHeadPruner                    *)
(* (transformer_pruner.py) and AttentionHeadMasker with its L1/L2 weight   *)
(* subclasses (transformer_pruning_head_masker.py).                        *)
(*                                                                         *)
(* Tensors are functions over 0-based index pairs <<r, c>> (weights, weight *)
(* masks) or over 0-based indices (bias masks).  A masking group is the    *)
(* four wrappers at positions 0..3 (Q_proj, K_proj, V_proj, output_proj).  *)
(* A sparsity is the exact fraction num/den; the floats the program uses   *)
(* are exact on the values drawn here.  Importance scores are kept as the  *)
(* sum of the three norms, i.e. 3 times the program's score: only          *)
(* comparisons between scores are ever made.                               *)
(***************************************************************************)
EXTENDS Integers, Sequences, FiniteSets, TLC

VARIABLES
    args,           \* constructor arguments that __init__ only reads
    modules_wrapper,\* pruner.modules_wrapper: the active wrappers, in order
    masking_groups, \* pruner.masking_groups: the wrappers of every group
    wrapped,        \* the model's modules are replaced by their wrappers
    cfg,            \* constructor arguments kept on the pruner
    shape,          \* shape[g][i]: module.weight.size() of wrapper i of group g
    wsparsity,      \* wsparsity[g][i]: wrapper.config['sparsity']
    weight,         \* weight[g][i]: module.weight.data
    weight_mask,    \* weight_mask[g][i]: wrapper.weight_mask
    bias_mask,      \* bias_mask[g][i]: wrapper.bias_mask
    pruned_heads,   \* pruner.pruned_heads
    pc,             \* position of the running call
    pruning_iter,   \* loop variable of compress()
    epoch,          \* loop variable e of the finetuning loop
    training,       \* bound_model.training
    collected,      \* statistics the masker gathered in the calibration pass
    raised,         \* exception that left the last call, or "none"
    hist            \* observations of completed calls, read by the properties

\* what construction leaves for good
ctorVars == <<args, modules_wrapper, masking_groups, wrapped>>

vars == <<ctorVars, cfg, shape, wsparsity, weight, weight_mask, bias_mask, pruned_heads,
          pc, pruning_iter, epoch, training, collected, raised, hist>>

-----------------------------------------------------------------------------
(* Bounds of the model *)

MaxHeads == 3
MaxHeadDim == 2
MaxIter == 2
MaxEpochs == 1
InDim == 2
OutDim == 2

Vals == {-1, 0, 2}
Sparsities == {[num |-> 1, den |-> 4], [num |-> 1, den |-> 2], [num |-> 3, den |-> 4]}
WeightCriteria == {"l1_weight", "l2_weight"}
CalibCriteria == {"l1_activation", "l2_activation", "taylorfo"}

Pos == 0 .. 3
Proj == 0 .. 2

-----------------------------------------------------------------------------
(* Tensor helpers *)

Abs(x) == IF x < 0 THEN -x ELSE x

RECURSIVE SumOver(_, _)
SumOver(S, f) ==
    IF S = {} THEN 0
    ELSE LET x == CHOOSE y \in S : TRUE IN f[x] + SumOver(S \ {x}, f)

Idx(shp) == (0 .. shp[1] - 1) \X (0 .. shp[2] - 1)

Ones(shp) == [p \in Idx(shp) |-> 1]

OnesVec(n) == [r \in 0 .. n - 1 |-> 1]

\* elementwise product of two tensors of one shape (weight * mask_weight)
Mul(a, b) == [p \in DOMAIN a |-> a[p] * b[p]]

\* tensor.view([n_heads, -1])[k]: the flat positions of head k of a tensor
\* of shape shp, as index pairs
HeadCells(shp, n_heads, k) ==
    LET per == (shp[1] * shp[2]) \div n_heads
    IN  {p \in Idx(shp) : (p[1] * shp[2] + p[2]) \div per = k}

\* a weight tensor whose entries are v[k] on the rows of head k
HeadConst(shp, hd, v) == [p \in Idx(shp) |-> v[p[1] \div hd]]

-----------------------------------------------------------------------------
(* AttentionHeadMasker and its subclasses *)

head_hidden_dim == cfg.head_hidden_dim

Groups == DOMAIN shape

\* n_heads = q_proj.module.weight.size()[0] // self.head_hidden_dim
NHeads(g) == shape[g][0][1] \div head_hidden_dim

Heads(g) == 0 .. NHeads(g) - 1

\* torch.sum(torch.abs(w.view([n_heads, -1])), -1)[k]
L1Norm(g, i, k) ==
    SumOver(HeadCells(shape[g][i], NHeads(g), k),
            [p \in Idx(shape[g][i]) |-> Abs(weight[g][i][p])])

\* torch.sum(w.view([n_heads, -1]) ** 2, -1)[k]
L2Norm(g, i, k) ==
    SumOver(HeadCells(shape[g][i], NHeads(g), k),
            [p \in Idx(shape[g][i]) |-> weight[g][i][p] * weight[g][i][p]])

\* L1WeightHeadMasker.get_head_importance_scores (times 3)
L1WeightScores(g) ==
    [k \in Heads(g) |-> L1Norm(g, 0, k) + L1Norm(g, 1, k) + L1Norm(g, 2, k)]

\* L2WeightHeadMasker.get_head_importance_scores (times 3)
L2WeightScores(g) ==
    [k \in Heads(g) |-> L2Norm(g, 0, k) + L2Norm(g, 1, k) + L2Norm(g, 2, k)]

\* the activation and Taylor maskers score a head by the statistics of the
\* calibration pass
CalibScores(g) == [k \in Heads(g) |-> collected[g][k]]

\* self.get_head_importance_scores of the masker MASKER_DICT selects
get_head_importance_scores(g) ==
    IF cfg.ranking_criteria = "l1_weight" THEN L1WeightScores(g)
    ELSE IF cfg.ranking_criteria = "l2_weight" THEN L2WeightScores(g)
    ELSE CalibScores(g)

\* torch.topk(scores, num_prune, largest=False)[0].max(): the num_prune-th
\* smallest score
TopkThreshold(scores, num_prune) ==
    LET range == {scores[k] : k \in DOMAIN scores}
        reach == {x \in range :
                    Cardinality({k \in DOMAIN scores : scores[k] <= x}) >= num_prune}
    IN  CHOOSE x \in reach : \A y \in reach : x <= y

\* int(num_total * sparsity) for the fraction sparsity
NumPrune(num_total, sparsity) == (num_total * sparsity.num) \div sparsity.den

get_current_state_Accumulating(sparsity, g, i) ==
    LET num_total == shape[g][i][1] \div head_hidden_dim
        gone == Cardinality({k \in Heads(g) : bias_mask[g][0][k * head_hidden_dim] = 0})
    IN  [mask |-> [weight_mask |-> weight_mask[g][i], bias_mask |-> bias_mask[g][i]],
         weight |-> Mul(weight[g][i], weight_mask[g][i]),
         num_prune |-> gone + NumPrune(num_total, sparsity)]

\* AttentionHeadMasker._get_current_state: the wrapper's current masks, its
\* masked weight and the number of heads to prune.  Every wrapper carries a
\* weight mask and a bias mask from construction.
get_current_state(sparsity, g, i) ==
    LET num_total == shape[g][i][1] \div head_hidden_dim
    IN  [mask |-> [weight_mask |-> weight_mask[g][i], bias_mask |-> bias_mask[g][i]],
         weight |-> Mul(weight[g][i], weight_mask[g][i]),
         num_prune |-> NumPrune(num_total, sparsity)]

\* mask_weight_proj: the keep flags expanded to [n_heads, -1] and viewed
\* in the shape of the weight
ProjWeightMask(g, wshape, keep) ==
    LET per_w == (shape[g][0][1] * shape[g][0][2]) \div NHeads(g)
    IN  [p \in Idx(wshape) |-> keep[(p[1] * wshape[2] + p[2]) \div per_w]]

\* mask_bias_proj: the keep flags expanded to [n_heads, -1] and flattened
ProjBiasMask(g, keep) ==
    LET per_b == shape[g][0][1] \div NHeads(g)
    IN  [r \in 0 .. shape[g][0][1] - 1 |-> keep[r \div per_b]]

DenseWeightMask_Unmasked(g, mask_bias_proj) == Ones(shape[g][3])

\* mask_weight_dense = mask_bias_proj.expand_as(output_proj.module.weight.data)
DenseWeightMask(g, mask_bias_proj) ==
    [p \in Idx(shape[g][3]) |-> mask_bias_proj[p[2]]]

DenseBiasMask_Masked(g, keep) ==
    [r \in 0 .. shape[g][3][1] - 1 |-> keep[r % NHeads(g)]]

\* mask_bias_dense = torch.ones_like(output_proj.module.bias.data)
DenseBiasMask(g, keep) == OnesVec(shape[g][3][1])

\* the four masks built from the per-head keep flags (lines 168-185)
MasksFromKeep(g, wshape, keep) ==
    LET masks_for_proj == [weight_mask |-> ProjWeightMask(g, wshape, keep),
                           bias_mask |-> ProjBiasMask(g, keep)]
        masks_for_dense == [weight_mask |-> DenseWeightMask(g, ProjBiasMask(g, keep)),
                            bias_mask |-> DenseBiasMask(g, keep)]
    IN  [i \in Pos |-> IF i = 3 THEN masks_for_dense ELSE masks_for_proj]

KeepAbove_Below(importance_scores, threshold) ==
    [k \in DOMAIN importance_scores |-> IF importance_scores[k] < threshold THEN 1 ELSE 0]

\* torch.gt(importance_scores, threshold)
KeepAbove(importance_scores, threshold) ==
    [k \in DOMAIN importance_scores |-> IF importance_scores[k] > threshold THEN 1 ELSE 0]

get_mask_by_importance_ranking(base_mask, w, num_prune, g, i) ==
    IF num_prune > NHeads(g)
    THEN [kind |-> "raise", exc |-> "RuntimeError"]
    ELSE CHOOSE r \in
            {[kind |-> "list",
              masks |-> MasksFromKeep(g, shape[g][i],
                            KeepAbove(importance_scores,
                                      TopkThreshold(importance_scores, num_prune)))] :
                importance_scores \in {get_head_importance_scores(g)}} : TRUE

\* AttentionHeadMasker.calc_mask(sparsity, wrapper, weight_group=group) with
\* wrapper the member i of group g.  The degenerate branch returns the
\* wrapper's own mask dict, not a list of four.
Masker_calc_mask(sparsity, g, i) ==
    LET st == get_current_state(sparsity, g, i)
        num_total == shape[g][i][1] \div head_hidden_dim
    IN  IF num_total < 2 \/ st.num_prune < 1
        THEN [kind |-> "dict"]
        ELSE get_mask_by_importance_ranking(st.mask, st.weight, st.num_prune, g, i)

-----------------------------------------------------------------------------
(* TransformerHeadPruner *)

validate_weight_groups_NoOutputCheck(shp, sp, global_sort, hd) ==
    \A g \in DOMAIN shp :
        /\ DOMAIN shp[g] = Pos
        /\ shp[g][0] = shp[g][1] /\ shp[g][1] = shp[g][2]
        /\ sp[g][0] = sp[g][1] /\ sp[g][1] = sp[g][2] /\ sp[g][2] = sp[g][3]
        /\ global_sort => sp[0][0] = sp[g][0]
        /\ shp[g][0][1] % hd = 0

\* TransformerHeadPruner.validate_weight_groups: TRUE when no assertion fails
validate_weight_groups(shp, sp, global_sort, hd) ==
    \A g \in DOMAIN shp :
        /\ DOMAIN shp[g] = Pos
        /\ shp[g][0] = shp[g][1] /\ shp[g][1] = shp[g][2]
        /\ shp[g][0][1] = shp[g][3][2]
        /\ sp[g][0] = sp[g][1] /\ sp[g][1] = sp[g][2] /\ sp[g][2] = sp[g][3]
        /\ global_sort => sp[0][0] = sp[g][0]
        /\ shp[g][0][1] % hd = 0

\* iter_sparsity = weight_group[0].config['sparsity'] / self.num_iterations
IterSparsity(g) ==
    [num |-> wsparsity[g][0].num, den |-> wsparsity[g][0].den * cfg.num_iterations]

\* TransformerHeadPruner._calc_mask: the call
\* self.masker.calc_mask(sparsity=iter_sparsity, weight_group=weight_group)
\* gives no value to calc_mask's parameter wrapper, which has no default,
\* so the call raises before the masker's body runs.
Pruner_calc_mask(g) == [kind |-> "raise", exc |-> "TypeError"]

\* pooled heads <<g, k>> of all groups
AllHeads == UNION {{<<g, k>> : k \in Heads(g)} : g \in Groups}

\* a comes before b in the ascending order of (score, group, head)
GlobalBefore(scores, a, b) ==
    \/ scores[a[1]][a[2]] < scores[b[1]][b[2]]
    \/ scores[a[1]][a[2]] = scores[b[1]][b[2]] /\ a[1] < b[1]
    \/ scores[a[1]][a[2]] = scores[b[1]][b[2]] /\ a[1] = b[1] /\ a[2] < b[2]

\* the n lowest pooled heads
GlobalSelection(n) ==
    UNION {{a \in AllHeads : Cardinality({b \in AllHeads : GlobalBefore(scores, b, a)}) < n} :
            scores \in {[g \in Groups |-> get_head_importance_scores(g)]}}

\* masker.calc_mask_global(n_heads_to_prune): the n_heads_to_prune
\* lowest-scoring pooled heads; every group gets the four masks that zero
\* its selected heads
calc_mask_global(n_heads_to_prune) ==
    CHOOSE r \in
        {[g \in Groups |->
            [kind |-> "list",
             masks |-> MasksFromKeep(g, shape[g][0],
                          [k \in Heads(g) |-> IF <<g, k>> \in sel THEN 0 ELSE 1]),
             heads |-> {k \in Heads(g) : <<g, k>> \in sel}]] :
          sel \in {GlobalSelection(n_heads_to_prune)}} : TRUE

NHeadsToPrune_FirstGroup ==
    NumPrune(NHeads(0), [num |-> wsparsity[0][0].num,
                         den |-> wsparsity[0][0].den * cfg.num_iterations])

\* n_heads_to_prune of TransformerHeadPruner._calc_mask_global
NHeadsToPrune ==
    LET overall_sparsity == [num |-> wsparsity[0][0].num,
                             den |-> wsparsity[0][0].den * cfg.num_iterations]
        n_heads_total == SumOver(Groups, [g \in Groups |-> NHeads(g)])
    IN  NumPrune(n_heads_total, overall_sparsity)

\* TransformerHeadPruner._calc_mask_global
Pruner_calc_mask_global == calc_mask_global(NHeadsToPrune)

\* masks of update_mask for every group: masks_for_all_groups[group_idx]
\* when global_sort is set, self._calc_mask(layer_weight_group) otherwise
MasksForAllGroups ==
    IF cfg.global_sort THEN Pruner_calc_mask_global
    ELSE [g \in Groups |-> Pruner_calc_mask(g) @@ [heads |-> {}]]

\* the mask computation or the mask assignment of group g raises: an
\* exception of the masker, or a dict in place of the list of four masks,
\* whose keys the assignment loop takes for masks (hasattr(wrapper, 'w')
\* fails)
Stops(all, g) == all[g].kind \in {"raise", "dict"}

FirstStop(all) ==
    IF \E g \in DOMAIN all : Stops(all, g)
    THEN CHOOSE g \in DOMAIN all : Stops(all, g) /\ \A h \in DOMAIN all : Stops(all, h) => g <= h
    ELSE Cardinality(DOMAIN all)

StopExc(all) ==
    IF FirstStop(all) \notin DOMAIN all THEN "none"
    ELSE IF all[FirstStop(all)].kind = "dict" THEN "AssertionError"
    ELSE all[FirstStop(all)].exc

\* group g's masks are assigned (lines 227-233)
Assigned(all, g) == g < FirstStop(all) /\ all[g].kind = "list"

\* TransformerHeadPruner.update_mask: the masks it leaves
update_mask_weight_mask(all) ==
    [g \in DOMAIN all |-> [i \in Pos |->
        IF Assigned(all, g) THEN all[g].masks[i].weight_mask ELSE weight_mask[g][i]]]

update_mask_bias_mask(all) ==
    [g \in DOMAIN all |-> [i \in Pos |->
        IF Assigned(all, g) THEN all[g].masks[i].bias_mask ELSE bias_mask[g][i]]]

update_mask_pruned_heads_Replacing(all) ==
    [g \in DOMAIN all |-> IF Assigned(all, g) THEN all[g].heads ELSE pruned_heads[g]]

\* the registry after the masker recorded the heads it selected
update_mask_pruned_heads(all) ==
    [g \in DOMAIN all |->
        IF Assigned(all, g) THEN pruned_heads[g] \cup all[g].heads ELSE pruned_heads[g]]

-----------------------------------------------------------------------------
(* The trainer callback *)

\* what one finetuning pass may do to a weight tensor of shape shp: leave
\* it, flip the sign of every entry, or move every head's rows to the next
\* head
TrainerEffects == {"keep", "negate", "shift"}

Trained(effect, shp, hd, w) ==
    IF effect = "negate" THEN [p \in Idx(shp) |-> -w[p]]
    ELSE IF effect = "shift" THEN [p \in Idx(shp) |-> w[<<(p[1] + hd) % shp[1], p[2]>>]]
    ELSE w

\* weights after trainer(model, optimizer, criterion, epoch) with epoch >= 1:
\* the Q, K and V tensors of one group are updated
TrainedWeights(effect, tg) ==
    [g \in Groups |-> [i \in Pos |->
        IF g = tg /\ i \in Proj
        THEN Trained(effect, shape[g][i], head_hidden_dim, weight[g][i])
        ELSE weight[g][i]]]

\* dry_run_or_finetune of the example, the trainer handed to the pruner: the
\* weights after trainer(model, optimizer, criterion, epoch_num).  The
\* optimizer steps unless epoch_num is 0.
dry_run_or_finetune_AlwaysSteps(epoch_num, effect) == TrainedWeights(effect, 0)

dry_run_or_finetune(epoch_num, effect) ==
    IF epoch_num # 0 THEN TrainedWeights(effect, 0) ELSE weight

-----------------------------------------------------------------------------
(* States after construction *)

QShape(h, hd) == <<h * hd, InDim>>
OShape(h, hd) == <<OutDim, h * hd>>

GroupShape(h, hd) == [i \in Pos |-> IF i = 3 THEN OShape(h, hd) ELSE QShape(h, hd)]

\* the weights of one layer: Q and K constant on each head
GroupWeight(h, hd, qv, kv) ==
    [i \in Pos |->
        IF i = 0 THEN HeadConst(QShape(h, hd), hd, qv)
        ELSE IF i = 1 THEN HeadConst(QShape(h, hd), hd, kv)
        ELSE IF i = 2 THEN Ones(QShape(h, hd))
        ELSE Ones(OShape(h, hd))]

\* Q of a layer: any values of Vals on the first two heads, the highest value
\* on the others
AllQ(h) == {q \in [0 .. h - 1 -> Vals] : \A k \in 0 .. h - 1 : k >= 2 => q[k] = 2}

\* K of a layer: all ones
KOnes(h) == {[k \in 0 .. h - 1 |-> 1]}

\* K of a layer: all ones, or zero on the first head
KProfiles(h) == {[k \in 0 .. h - 1 |-> 1], [k \in 0 .. h - 1 |-> IF k = 0 THEN 0 ELSE 1]}

AllOnesMasks(shp) == [g \in DOMAIN shp |-> [i \in Pos |-> Ones(shp[g][i])]]
AllOnesBias(shp) == [g \in DOMAIN shp |-> [i \in Pos |-> OnesVec(shp[g][i][1])]]

NoHist == [last |-> "none", repeat |-> FALSE]

\* Q of a layer: the same on every head, growing or falling with the head
QProfiles(h) ==
    {[k \in 0 .. h - 1 |-> -1], [k \in 0 .. h - 1 |-> k], [k \in 0 .. h - 1 |-> k - h]}

\* a constructed pruner over the layers 0 .. ng-1 (end of __init__), the
\* per-head values of Q and K of a layer of h heads drawn from qs[h] and ks[h]
Constructed(ng, criteria, sorts, eps, hds, qs, ks) ==
    /\ cfg \in [global_sort : sorts,
                num_iterations : 1 .. MaxIter,
                epochs_per_iteration : eps,
                ranking_criteria : criteria,
                head_hidden_dim : hds]
    /\ \E hs \in [0 .. ng - 1 -> 1 .. MaxHeads] :
        /\ shape = [g \in 0 .. ng - 1 |-> GroupShape(hs[g], cfg.head_hidden_dim)]
        /\ \E qv \in [0 .. ng - 1 -> UNION {qs[h] : h \in 1 .. MaxHeads}],
              kv \in [0 .. ng - 1 -> UNION {ks[h] : h \in 1 .. MaxHeads}] :
            /\ \A g \in 0 .. ng - 1 : qv[g] \in qs[hs[g]] /\ kv[g] \in ks[hs[g]]
            /\ weight = [g \in 0 .. ng - 1 |->
                            GroupWeight(hs[g], cfg.head_hidden_dim, qv[g], kv[g])]
    /\ \E sp \in [0 .. ng - 1 -> Sparsities] :
        wsparsity = [g \in 0 .. ng - 1 |-> [i \in Pos |-> sp[g]]]
    /\ validate_weight_groups(shape, wsparsity, cfg.global_sort, cfg.head_hidden_dim)
    /\ weight_mask = AllOnesMasks(shape)
    /\ bias_mask = AllOnesBias(shape)
    /\ pruned_heads = [g \in 0 .. ng - 1 |-> {}]
    /\ collected = [g \in 0 .. ng - 1 |-> [k \in 0 .. MaxHeads - 1 |-> 0]]
    /\ pruning_iter = 0
    /\ epoch = 0
    /\ raised = "none"
    /\ args = [trainer |-> TRUE, optimizer |-> TRUE]
    /\ masking_groups = [g \in 1 .. ng |-> [i \in 1 .. 4 |-> <<g - 1, i - 1>>]]
    /\ modules_wrapper = [j \in 1 .. 4 * ng |-> <<(j - 1) \div 4, (j - 1) % 4>>]
    /\ wrapped = TRUE

-----------------------------------------------------------------------------
(* The masker called on its own: calc_mask on a member of a layer, the      *)
(* masks it returns assigned as update_mask assigns them                   *)

MaskerInit ==
    /\ Constructed(1, WeightCriteria, {FALSE}, {1}, 1 .. MaxHeadDim,
                   [h \in 1 .. MaxHeads |-> AllQ(h)],
                   [h \in 1 .. MaxHeads |-> KProfiles(h)])
    /\ training = TRUE
    /\ pc = "idle"
    /\ hist = NoHist

\* masker.calc_mask(sparsity, wrapper, weight_group=group) for member i of
\* layer 0, followed by the assignment loop of update_mask (lines 227-233)
MaskerCall(i) ==
    \E res \in {Masker_calc_mask(IterSparsity(0), 0, i)} :
        /\ weight_mask' = [weight_mask EXCEPT ![0] =
               IF res.kind = "list" THEN [j \in Pos |-> res.masks[j].weight_mask] ELSE @]
        /\ bias_mask' = [bias_mask EXCEPT ![0] =
               IF res.kind = "list" THEN [j \in Pos |-> res.masks[j].bias_mask] ELSE @]
        /\ raised' = IF res.kind = "list" THEN "none"
                     ELSE IF res.kind = "dict" THEN "AssertionError"
                     ELSE res.exc
        /\ hist' = [last |-> "call", repeat |-> hist.last = "call"]
        /\ UNCHANGED <<ctorVars, cfg, shape, wsparsity, weight, pruned_heads, pc, pruning_iter,
                       epoch, training, collected>>

\* a finetuning pass between two mask computations
MaskerTrain(effect) ==
    /\ weight' = TrainedWeights(effect, 0)
    /\ hist' = IF weight' = weight THEN hist ELSE [last |-> "train", repeat |-> FALSE]
    /\ UNCHANGED <<ctorVars, cfg, shape, wsparsity, weight_mask, bias_mask, pruned_heads, pc,
                   pruning_iter, epoch, training, collected, raised>>

MaskerNext ==
    \/ \E i \in Proj : MaskerCall(i)
    \/ \E effect \in TrainerEffects : MaskerTrain(effect)

SpecMasker == MaskerInit /\ [][MaskerNext]_vars

-----------------------------------------------------------------------------
(* compress() *)

NeedsCalibration == cfg.ranking_criteria \in CalibCriteria

\* statistics one calibration pass may leave in the masker, per head
CalibProfiles ==
    {[k \in 0 .. MaxHeads - 1 |-> 1],
     [k \in 0 .. MaxHeads - 1 |-> k],
     [k \in 0 .. MaxHeads - 1 |-> MaxHeads - k]}

\* compress() calls the model follows
MaxCalls == 2

\* two layers; the weights vary where the criterion reads them
Init ==
    /\ Constructed(2, {"l1_weight", "taylorfo"}, BOOLEAN,
                   1 .. MaxEpochs, {MaxHeadDim},
                   [h \in 1 .. MaxHeads |-> QProfiles(h)],
                   [h \in 1 .. MaxHeads |-> KOnes(h)])
    /\ NeedsCalibration =>
           \A g \in Groups :
               weight[g][0] = HeadConst(shape[g][0], head_hidden_dim, [k \in Heads(g) |-> -1])
    /\ training \in IF NeedsCalibration THEN BOOLEAN ELSE {TRUE}
    /\ pc = "idle"
    /\ hist = [last |-> "none", saved |-> TRUE, updates |-> 0, calls |-> 0,
               completed |-> FALSE, masked |-> -1, finetunes |-> 0, resets |-> 0,
               trainer_epoch |-> -1]

\* compress() is called, for the first time or after an earlier call has
\* returned: the loop starts with pruning_iter = 0
StartCompress ==
    /\ pc \in {"idle", "done"}
    /\ hist.calls < MaxCalls
    /\ pc' = "score"
    /\ pruning_iter' = 0
    /\ hist' = [hist EXCEPT !.last = "start", !.calls = @ + 1, !.masked = -1,
                            !.finetunes = 0, !.resets = 0]
    /\ UNCHANGED <<ctorVars, cfg, shape, wsparsity, weight, weight_mask, bias_mask,
                   pruned_heads, epoch, training, collected, raised>>

\* a trainer call or update_mask raised (lines 195, 196, 199, 204): nothing
\* catches the exception and compress() is left
OnError_Retry == pc

OnError == "failed"

\* lines 193-195: training is saved, the model is put in evaluation mode and
\* the trainer runs with epoch=0; the trainer may raise
Calibrate ==
    /\ pc = "score"
    /\ NeedsCalibration
    /\ training' = FALSE
    /\ hist' = [hist EXCEPT !.saved = training, !.last = "calibrate",
                            !.trainer_epoch = 0]
    /\ \/ /\ \E prof \in CalibProfiles : collected' = [g \in Groups |-> prof]
          /\ \E effect \in TrainerEffects : weight' = dry_run_or_finetune(0, effect)
          /\ pc' = "mask"
          /\ raised' = raised
       \/ /\ pc' = OnError
          /\ raised' = "TrainerError"
          /\ UNCHANGED <<collected, weight>>
    /\ UNCHANGED <<ctorVars, cfg, shape, wsparsity, weight_mask, bias_mask,
                   pruned_heads, pruning_iter, epoch>>

TrainingAfterUpdate_NotRestored(exc) == training

\* bound_model.training after update_mask (line 197): the saved flag is put
\* back when a calibration pass ran and update_mask returned
TrainingAfterUpdate(exc) ==
    IF exc = "none" /\ NeedsCalibration THEN hist.saved ELSE training

\* lines 196-199: update_mask(), then the saved training flag is restored
\* when a calibration pass ran.  An exception of update_mask leaves compress().
UpdateMask ==
    /\ pc = IF NeedsCalibration THEN "mask" ELSE "score"
    /\ \E all \in {MasksForAllGroups} : \E exc \in {StopExc(all)} :
        /\ weight_mask' = update_mask_weight_mask(all)
        /\ bias_mask' = update_mask_bias_mask(all)
        /\ pruned_heads' = update_mask_pruned_heads(all)
        /\ raised' = IF exc = "none" THEN raised ELSE exc
        /\ pc' = IF exc = "none" THEN "finetune" ELSE OnError
        /\ training' = TrainingAfterUpdate(exc)
        /\ hist' = [hist EXCEPT !.last = "update_mask", !.updates = @ + 1,
                                !.masked = IF exc = "none" THEN pruning_iter ELSE @,
                                !.finetunes = 0]
    /\ epoch' = 0
    /\ UNCHANGED <<ctorVars, cfg, shape, wsparsity, weight, pruning_iter, collected>>

Finetunes_Always == TRUE

\* line 202: the finetuning loop runs
Finetunes == cfg.num_iterations > 1

FinetuneEpochs_OneLess == cfg.epochs_per_iteration - 1

\* line 203: range(self.epochs_per_iteration)
FinetuneEpochs == cfg.epochs_per_iteration

\* lines 202-204: one finetuning call trainer(..., epoch=e+1); it may raise
Finetune ==
    /\ pc = "finetune"
    /\ Finetunes
    /\ epoch < FinetuneEpochs
    /\ \/ /\ \E effect \in {"keep", "shift"} :
                weight' = dry_run_or_finetune(epoch + 1, effect)
          /\ epoch' = epoch + 1
          /\ pc' = pc
          /\ raised' = raised
          /\ hist' = [hist EXCEPT !.last = "finetune", !.finetunes = @ + 1,
                                  !.trainer_epoch = epoch + 1]
       \/ /\ pc' = OnError
          /\ raised' = "TrainerError"
          /\ hist' = [hist EXCEPT !.last = "finetune", !.trainer_epoch = epoch + 1]
          /\ UNCHANGED <<weight, epoch>>
    /\ UNCHANGED <<ctorVars, cfg, shape, wsparsity, weight_mask, bias_mask, pruned_heads,
                   pruning_iter, training, collected>>

\* masker.reset(): the statistics of the calibration pass are dropped
MaskerReset == [g \in Groups |-> [k \in 0 .. MaxHeads - 1 |-> 0]]

ResetsMasker_EveryIteration == cfg.num_iterations > 1

\* line 207: the masker is reset
ResetsMasker == cfg.num_iterations > 1 /\ pruning_iter # cfg.num_iterations - 1

\* lines 206-211 and the loop header: the masker is reset when another
\* iteration follows, and the loop goes on or ends
EndIteration ==
    /\ pc = "finetune"
    /\ ~Finetunes \/ epoch >= FinetuneEpochs
    /\ collected' = IF ResetsMasker THEN MaskerReset ELSE collected
    /\ pruning_iter' = IF pruning_iter = cfg.num_iterations - 1
                       THEN pruning_iter ELSE pruning_iter + 1
    /\ pc' = IF pruning_iter = cfg.num_iterations - 1 THEN "done" ELSE "score"
    /\ hist' = [hist EXCEPT !.last = "end",
                            !.resets = IF ResetsMasker THEN @ + 1 ELSE @,
                            !.completed = @ \/ pruning_iter = cfg.num_iterations - 1]
    /\ UNCHANGED <<ctorVars, cfg, shape, wsparsity, weight, weight_mask, bias_mask,
                   pruned_heads, epoch, training, raised>>

Next ==
    \/ StartCompress
    \/ Calibrate
    \/ UpdateMask
    \/ Finetune
    \/ EndIteration

Spec == Init /\ [][Next]_vars

\* compress() is sequential code: once it is called, the statement it has
\* reached is executed.  When compress() is called is up to the caller.
SpecFair ==
    Init /\ [][Next]_vars /\ WF_vars(Calibrate \/ UpdateMask \/ Finetune \/ EndIteration)

-----------------------------------------------------------------------------
(* update_mask() called on its own, with a masker that may have no mask for *)
(* a group                                                                  *)

\* what the masker has for the groups when its body runs: the list of four
\* masks, or None ("masks can be None if the underlying masker returns
\* None. This means that the mask calculation fails.")
MaskerReturns == [Groups -> {"masks", "none"}]

\* masks_for_all_groups[group_idx] when global_sort is set,
\* self._calc_mask(layer_weight_group) otherwise, for a masker that returns
\* None where ret says so
MasksForAllGroupsOf(ret) ==
    IF cfg.global_sort
    THEN [g \in Groups |-> IF ret[g] = "none" THEN [kind |-> "none", heads |-> {}]
                           ELSE Pruner_calc_mask_global[g]]
    ELSE [g \in Groups |-> Pruner_calc_mask(g) @@ [heads |-> {}]]

\* the groups the loop of update_mask takes up (line 222)
LoopReached(all) == {g \in DOMAIN all : g <= FirstStop(all)}

\* the calls of the masker one update_mask makes: one call of
\* calc_mask_global (line 220), or one call of _calc_mask for every group
\* the loop takes up (line 226)
MaskerCalls(all) == IF cfg.global_sort THEN 1 ELSE Cardinality(LoopReached(all))

UpdateInit ==
    /\ Constructed(2, {"l1_weight"}, BOOLEAN, {1}, {MaxHeadDim},
                   [h \in 1 .. MaxHeads |-> QProfiles(h)],
                   [h \in 1 .. MaxHeads |-> KOnes(h)])
    /\ training = TRUE
    /\ pc = "idle"
    /\ hist = [last |-> "none", ret |-> [g \in Groups |-> "masks"],
               reached |-> {}, calls |-> 0]

\* TransformerHeadPruner.update_mask (lines 213-233)
UpdateMaskOf(ret) ==
    /\ pc = "idle"
    /\ \E all \in {MasksForAllGroupsOf(ret)} :
        /\ weight_mask' = update_mask_weight_mask(all)
        /\ bias_mask' = update_mask_bias_mask(all)
        /\ pruned_heads' = update_mask_pruned_heads(all)
        /\ raised' = StopExc(all)
        /\ hist' = [last |-> "update_mask", ret |-> ret,
                    reached |-> LoopReached(all), calls |-> MaskerCalls(all)]
    /\ UNCHANGED <<ctorVars, cfg, shape, wsparsity, weight, pc, pruning_iter, epoch,
                   training, collected>>

UpdateNext == \E ret \in MaskerReturns : UpdateMaskOf(ret)

SpecUpdate == UpdateInit /\ [][UpdateNext]_vars

-----------------------------------------------------------------------------
(* Construction: the group sanity check of __init__ *)

ValShapes == {<<2, 2>>, <<3, 2>>, <<2, 3>>}
ValSparsities == {[num |-> 1, den |-> 4], [num |-> 1, den |-> 2]}

\* a well-formed layer of Q shape q and sparsity sp
GoodGroupShape(q) == [i \in Pos |-> IF i = 3 THEN <<q[2], q[1]>> ELSE q]
GoodGroupSparsity(sp) == [i \in Pos |-> sp]

\* the second layer handed to the constructor: well formed, or with one
\* defect: "k" K of another shape, "o" output_proj of another input
\* dimension, "s" output_proj of another sparsity, "m" a member missing
SecondShapes(q, defect) ==
    IF defect = "k" THEN [GoodGroupShape(q) EXCEPT ![1] = <<q[1] + 1, q[2]>>]
    ELSE IF defect = "o" THEN [GoodGroupShape(q) EXCEPT ![3] = <<q[2], q[1] + 1>>]
    ELSE IF defect = "m" THEN [i \in Proj |-> q]
    ELSE GoodGroupShape(q)

SecondSparsity(sp, defect) ==
    IF defect = "s" THEN [GoodGroupSparsity(sp) EXCEPT ![3] = [num |-> 3, den |-> 4]]
    ELSE IF defect = "m" THEN [i \in Proj |-> sp]
    ELSE GoodGroupSparsity(sp)

ValidateInit ==
    /\ cfg \in [global_sort : BOOLEAN,
                num_iterations : {1},
                epochs_per_iteration : {1},
                ranking_criteria : {"l1_weight"},
                head_hidden_dim : 1 .. MaxHeadDim + 1]
    /\ \E dom \in {Pos, Proj} :
       \E s0 \in [dom -> ValShapes], p0 \in [dom -> ValSparsities] :
        \/ shape = <<s0>> /\ wsparsity = <<p0>>
        \/ \E q \in {<<2, 2>>, <<3, 2>>}, sp \in ValSparsities,
              defect \in {"none", "k", "o", "s", "m"} :
            /\ shape = <<s0, SecondShapes(q, defect)>>
            /\ wsparsity = <<p0, SecondSparsity(sp, defect)>>
    /\ weight = <<>>
    /\ weight_mask = <<>>
    /\ bias_mask = <<>>
    /\ pruned_heads = <<>>
    /\ collected = <<>>
    /\ pruning_iter = 0
    /\ epoch = 0
    /\ training = TRUE
    /\ raised = "none"
    /\ pc = "new"
    /\ hist = NoHist
    /\ args = [trainer |-> FALSE, optimizer |-> FALSE]
    /\ masking_groups = [g \in 1 .. Len(shape) |->
                             [i \in 1 .. Cardinality(DOMAIN shape[g]) |-> <<g - 1, i - 1>>]]
    /\ modules_wrapper =
           SelectSeq([j \in 1 .. 4 * Len(shape) |-> <<(j - 1) \div 4, (j - 1) % 4>>],
                     LAMBDA w : w[2] \in DOMAIN shape[w[1] + 1])
    /\ wrapped = TRUE

\* the list self.masking_groups, its layers numbered from 0
MaskingGroups(seq) == [g \in 0 .. Len(seq) - 1 |-> seq[g + 1]]

\* __init__ from the group sanity check on (lines 87-94): a failed
\* assertion leaves the constructor, otherwise the registry is created
ValidateAndFinish ==
    /\ pc = "new"
    /\ IF validate_weight_groups(MaskingGroups(shape), MaskingGroups(wsparsity),
                                 cfg.global_sort, cfg.head_hidden_dim)
       THEN /\ pc' = "constructed"
            /\ raised' = "none"
            /\ pruned_heads' = [g \in 0 .. Len(shape) - 1 |-> {}]
       ELSE /\ pc' = "failed"
            /\ raised' = "AssertionError"
            /\ pruned_heads' = pruned_heads
    /\ UNCHANGED <<ctorVars, cfg, shape, wsparsity, weight, weight_mask, bias_mask,
                   pruning_iter, epoch, training, collected, hist>>

ValidateNext == ValidateAndFinish

SpecValidate == ValidateInit /\ [][ValidateNext]_vars

-----------------------------------------------------------------------------
(* Construction: __init__ as a whole *)

\* the Linear modules config_list may select, in the order the model lists
\* them: the four projections of two attention layers and one feed-forward
\* module; a model may define its output projection before the other three
SelectedWrappers ==
    {<<"q0", "k0", "v0", "o0", "q1", "k1", "v1", "o1", "ffn">>,
     <<"q0", "k0", "v0", "o0", "q1", "k1", "v1", "o1">>,
     <<"ffn", "q0", "k0", "v0", "o0">>,
     <<"o0", "q0", "k0", "v0">>}

\* lists of name groups, handed in as attention_name_groups or found by the
\* tracer: entries of four names, of three names, and of four names one of
\* which names no selected module
NameGroupLists ==
    {<<>>,
     <<<<"q0", "k0", "v0", "o0">>>>,
     <<<<"q0", "k0", "v0", "o0">>, <<"q1", "k1", "v1", "o1">>>>,
     <<<<"q0", "k0", "v0", "o0">>, <<"q1", "k1", "v1">>>>,
     <<<<"q0", "k0", "v0", "o0">>, <<"q1", "k1", "v1", "x">>>>,
     <<<<"q1", "k1", "v1">>>>}

\* what the tracer gives for the model: an exception (ok = FALSE) or the
\* name groups of the attention layers it found, possibly none
TraceOutcomes == [ok : BOOLEAN, sets : NameGroupLists]

\* module.weight.size() of the wrapper named w: two rows per projection
WrapperShape(w) ==
    IF w \in {"o0", "o1"} THEN <<OutDim, 2>>
    ELSE IF w = "ffn" THEN <<OutDim, InDim>>
    ELSE <<2, InDim>>

\* config['sparsity'] of the wrapper named w
WrapperSparsity(w) == [num |-> 1, den |-> 2]

\* line 63: the criterion is one of the five supported ones
CriterionSupported == cfg.ranking_criteria \in WeightCriteria \cup CalibCriteria

\* line 71: the configurations that call the trainer
RequiresTrainer_CalibrationOnly == cfg.ranking_criteria \in CalibCriteria

RequiresTrainer == cfg.ranking_criteria \in CalibCriteria \/ cfg.num_iterations > 1

\* lines 71-73: no assertion on the trainer and the optimizer fails
TrainerCheck == RequiresTrainer => (args.trainer /\ args.optimizer)

\* name2group[w] of group_weights_by_name: the last entry that names w, 0
\* when none does
Name2Group(names, w) ==
    IF \E l \in 1 .. Len(names) : \E j \in 1 .. Len(names[l]) : names[l][j] = w
    THEN CHOOSE l \in 1 .. Len(names) :
            /\ \E j \in 1 .. Len(names[l]) : names[l][j] = w
            /\ \A m \in 1 .. Len(names) :
                  (\E j \in 1 .. Len(names[m]) : names[m][j] = w) => m <= l
    ELSE 0

\* entries of names before the first one that has not four names
GoodPrefix(names) ==
    IF \E l \in 1 .. Len(names) : Len(names[l]) # 4
    THEN (CHOOSE l \in 1 .. Len(names) :
              Len(names[l]) # 4 /\ \A m \in 1 .. l - 1 : Len(names[m]) = 4) - 1
    ELSE Len(names)

group_weights_by_name_AnyLength(names, wrappers) ==
    [kind |-> "ok", exc |-> "none",
     groups |-> [l \in 1 .. Len(names) |->
                    SelectSeq(wrappers, LAMBDA w : Name2Group(names, w) = l)]]

\* TransformerHeadPruner.group_weights_by_name: the assertion on the length
\* of an entry leaves the groups appended so far; otherwise every wrapper
\* joins the group of its name, in the order of get_modules_wrapper()
group_weights_by_name(names, wrappers) ==
    IF GoodPrefix(names) < Len(names)
    THEN [kind |-> "raise", exc |-> "AssertionError",
          groups |-> [l \in 1 .. GoodPrefix(names) |-> <<>>]]
    ELSE [kind |-> "ok", exc |-> "none",
          groups |-> [l \in 1 .. Len(names) |->
                         SelectSeq(wrappers, LAMBDA w : Name2Group(names, w) = l)]]

\* TransformerHeadPruner.group_weight_names_by_graph: any exception of the
\* trace or of the grouping leaves as a RuntimeError
group_weight_names_by_graph(trace, wrappers) ==
    IF ~trace.ok THEN [kind |-> "raise", exc |-> "RuntimeError", groups |-> <<>>]
    ELSE IF group_weights_by_name(trace.sets, wrappers).kind = "ok"
    THEN group_weights_by_name(trace.sets, wrappers)
    ELSE [group_weights_by_name(trace.sets, wrappers) EXCEPT !.exc = "RuntimeError"]

\* every wrapper of groups
GroupMembers(groups) ==
    UNION {{groups[l][j] : j \in 1 .. Len(groups[l])} : l \in 1 .. Len(groups)}

remove_ungrouped_modules_KeepAll(groups, wrappers) == wrappers

\* TransformerHeadPruner.remove_ungrouped_modules: the new modules_wrapper
remove_ungrouped_modules(groups, wrappers) ==
    SelectSeq(wrappers, LAMBDA w : w \in GroupMembers(groups))

\* the weight shapes and the sparsities of the members of groups, as the
\* sanity check reads them
GroupShapes(groups) ==
    [g \in 0 .. Len(groups) - 1 |->
        [i \in 0 .. Len(groups[g + 1]) - 1 |-> WrapperShape(groups[g + 1][i + 1])]]

GroupSparsities(groups) ==
    [g \in 0 .. Len(groups) - 1 |->
        [i \in 0 .. Len(groups[g + 1]) - 1 |-> WrapperSparsity(groups[g + 1][i + 1])]]

\* lines 76-85: the groups come from attention_name_groups when it is
\* given; otherwise a dummy input is required and the model is traced
GroupGeneration ==
    IF args.attention_name_groups.given
    THEN group_weights_by_name(args.attention_name_groups.names, modules_wrapper)
    ELSE IF ~args.dummy_input
    THEN [kind |-> "raise", exc |-> "AssertionError", groups |-> <<>>]
    ELSE group_weight_names_by_graph(args.trace, modules_wrapper)

Traces_Always == args.dummy_input

\* the model is traced (lines 83-85)
Traces == ~args.attention_name_groups.given /\ args.dummy_input

\* the arguments of a call of the constructor, modules_wrapper as
\* Compressor.__init__ leaves it and the result the tracer would give
ConstructInit ==
    /\ cfg \in [global_sort : BOOLEAN,
                num_iterations : 1 .. MaxIter,
                epochs_per_iteration : {1},
                ranking_criteria : WeightCriteria \cup CalibCriteria \cup {"random"},
                head_hidden_dim : 1 .. MaxHeadDim + 1]
    /\ args \in [trainer : BOOLEAN,
                 optimizer : BOOLEAN,
                 dummy_input : BOOLEAN,
                 attention_name_groups : [given : BOOLEAN, names : NameGroupLists],
                 trace : TraceOutcomes]
    /\ ~args.attention_name_groups.given => args.attention_name_groups.names = <<>>
    /\ (args.attention_name_groups.given \/ ~args.trace.ok) => args.trace.sets = <<>>
    /\ args.attention_name_groups.given => ~args.trace.ok /\ args.dummy_input
    /\ modules_wrapper \in SelectedWrappers
    /\ masking_groups = <<>>
    /\ wrapped = TRUE
    /\ shape = <<>>
    /\ wsparsity = <<>>
    /\ weight = <<>>
    /\ weight_mask = <<>>
    /\ bias_mask = <<>>
    /\ pruned_heads = <<>>
    /\ collected = <<>>
    /\ pruning_iter = 0
    /\ epoch = 0
    /\ training = TRUE
    /\ raised = "none"
    /\ pc = "new"
    /\ hist = [last |-> "none", selected |-> modules_wrapper, traced |-> FALSE,
               trainer_calls |-> 0]

\* TransformerHeadPruner.__init__: an exception leaves the constructor at
\* the statement that raised it
Construct ==
    /\ pc = "new"
    /\ \E gen \in {GroupGeneration} :
       \E early \in {~CriterionSupported \/ ~TrainerCheck} :
       \E valid \in {/\ ~early
                      /\ gen.kind = "ok"
                      /\ validate_weight_groups(GroupShapes(gen.groups),
                                                GroupSparsities(gen.groups),
                                                cfg.global_sort, cfg.head_hidden_dim)} :
        /\ masking_groups' = IF early THEN masking_groups ELSE gen.groups
        /\ args' = IF ~early /\ Traces /\ args.trace.ok
                    THEN [args EXCEPT !.attention_name_groups =
                                          [given |-> FALSE, names |-> args.trace.sets]]
                    ELSE args
        /\ wrapped' = IF ~early /\ Traces THEN gen.kind = "ok" ELSE wrapped
        /\ shape' = IF ~early /\ gen.kind = "ok" THEN GroupShapes(gen.groups) ELSE shape
        /\ wsparsity' = IF ~early /\ gen.kind = "ok"
                         THEN GroupSparsities(gen.groups) ELSE wsparsity
        /\ modules_wrapper' = IF valid
                               THEN remove_ungrouped_modules(gen.groups, modules_wrapper)
                               ELSE modules_wrapper
        /\ pruned_heads' = IF valid THEN [g \in 0 .. Len(gen.groups) - 1 |-> {}]
                            ELSE pruned_heads
        /\ pc' = IF valid THEN "constructed" ELSE "failed"
        /\ raised' = IF valid THEN "none"
                      ELSE IF early \/ gen.kind = "ok" THEN "AssertionError"
                      ELSE gen.exc
        /\ hist' = [hist EXCEPT !.last = "construct", !.traced = ~early /\ Traces]
    /\ UNCHANGED <<cfg, weight, weight_mask, bias_mask, pruning_iter, epoch, training,
                   collected>>

ConstructNext == Construct

SpecInit == ConstructInit /\ [][ConstructNext]_vars

-----------------------------------------------------------------------------
(* What the masks say *)

Rows(g, i) == 0 .. shape[g][i][1] - 1
Cols(g, i) == 0 .. shape[g][i][2] - 1

\* rows of wrapper i of layer g whose weight mask is zero throughout
ZeroRows(g, i) == {r \in Rows(g, i) : \A c \in Cols(g, i) : weight_mask[g][i][<<r, c>>] = 0}

\* entries of the bias mask of wrapper i that are zero
ZeroBias(g, i) == {r \in DOMAIN bias_mask[g][i] : bias_mask[g][i][r] = 0}

\* input columns of output_proj whose weight mask is zero throughout
ZeroCols(g) == {c \in Cols(g, 3) : \A r \in Rows(g, 3) : weight_mask[g][3][<<r, c>>] = 0}

\* rows of head k
HeadRows(g, k) == {r \in Rows(g, 0) : r \div head_hidden_dim = k}

\* heads of layer g whose rows are zeroed in the masks of Q
ZeroedHeads(g) == {k \in Heads(g) : HeadRows(g, k) \subseteq ZeroRows(g, 0)}

\* every mask of layer g is all ones
Unmasked(g) ==
    \A i \in Pos : weight_mask[g][i] = Ones(shape[g][i])
                   /\ bias_mask[g][i] = OnesVec(shape[g][i][1])

\* floor(h * s / num_iterations) for layer g
LayerShare(g) == (NHeads(g) * wsparsity[g][0].num) \div (wsparsity[g][0].den * cfg.num_iterations)

-----------------------------------------------------------------------------
(* Claims *)

\* C1: in every layer the rows zeroed in the weight masks and the bias
\* masks of Q, K and V are the same set of whole heads, and that set is the
\* set of input columns zeroed in the weight mask of output_proj; no mask
\* has a zero outside these rows and columns.
C1_StructuralConsistency ==
    \A g \in Groups :
        /\ \A i \in Proj : ZeroRows(g, i) = ZeroRows(g, 0) /\ ZeroBias(g, i) = ZeroRows(g, 0)
        /\ ZeroCols(g) = ZeroRows(g, 0)
        /\ ZeroRows(g, 0) = UNION {HeadRows(g, k) : k \in ZeroedHeads(g)}
        /\ \A i \in Proj : \A q \in Idx(shape[g][i]) :
               weight_mask[g][i][q] = 0 => q[1] \in ZeroRows(g, 0)
        /\ \A q \in Idx(shape[g][3]) : weight_mask[g][3][q] = 0 => q[2] \in ZeroCols(g)

\* a mask computation zeroed some heads of the layer and kept others
C1_Witness ==
    /\ hist.last = "call"
    /\ raised = "none"
    /\ ZeroedHeads(0) # {}
    /\ ZeroedHeads(0) # Heads(0)
    /\ ZeroCols(0) = ZeroRows(0, 0)

\* C2: in per-layer mode the first update_mask, which starts from all-true
\* masks, leaves exactly floor(h*s/num_iterations) zeroed heads in every
\* layer.
C2_PerLayerCount ==
    (~cfg.global_sort /\ hist.last = "update_mask" /\ hist.updates = 1)
        => \A g \in Groups : Cardinality(ZeroedHeads(g)) = LayerShare(g)

C4_RegistryNamesMaskedHeads ==
    \A g \in Groups : ZeroedHeads(g) \subseteq pruned_heads[g]

C6_EqualShares ==
    (~cfg.global_sort /\ cfg.num_iterations > 1 /\ hist.last = "update_mask")
        => \A g \in Groups : Cardinality(ZeroedHeads(g)) = hist.updates * LayerShare(g)

\* C7: a mask computation that follows another one with no change of the
\* weights in between leaves every weight mask and bias mask as it was.
C7_Idempotent ==
    [][(hist.last = "call" /\ hist'.last = "call")
            => (weight_mask' = weight_mask /\ bias_mask' = bias_mask)]_vars

\* a second computation on unchanged weights, with heads zeroed
C7_Witness ==
    /\ hist.repeat
    /\ raised = "none"
    /\ ZeroedHeads(0) # {}

\* C8: the bias mask of output_proj is all ones.
C8_DenseBiasUnmasked ==
    \A g \in Groups : bias_mask[g][3] = OnesVec(shape[g][3][1])

\* heads were zeroed in an iterative configuration and the bias mask of
\* output_proj kept its ones
C8_Witness ==
    /\ hist.last = "call"
    /\ raised = "none"
    /\ cfg.num_iterations > 1
    /\ ZeroCols(0) # {}
    /\ ZeroBias(0, 3) = {}

\* C9: in per-layer mode, when every layer has fewer than 2 heads or a
\* share of 0 heads, the first update_mask ends without an exception and
\* leaves every mask as it was (all ones).
C9_DegenerateIdentity ==
    (/\ ~cfg.global_sort
     /\ hist.last = "update_mask"
     /\ hist.updates = 1
     /\ \A g \in Groups : NHeads(g) < 2 \/ LayerShare(g) = 0)
        => (raised = "none" /\ \A g \in Groups : Unmasked(g))

\* the conditions of the sanity check, on the layers handed to the
\* constructor
C10_Conditions ==
    /\ \A g \in 1 .. Len(shape) :
        /\ DOMAIN shape[g] = Pos
        /\ \A i, j \in Proj : shape[g][i] = shape[g][j]
        /\ shape[g][3][2] = shape[g][0][1]
        /\ \A i, j \in Pos : wsparsity[g][i] = wsparsity[g][j]
        /\ \E m \in 1 .. shape[g][0][1] : m * cfg.head_hidden_dim = shape[g][0][1]
    /\ cfg.global_sort =>
        \A g, h \in 1 .. Len(shape) : wsparsity[g][0] = wsparsity[h][0]

\* C10: construction passes the sanity check exactly when every layer
\* meets the conditions; otherwise an exception leaves the constructor and
\* no pruner exists.
C10_ValidatorIff ==
    pc # "new" =>
        /\ pc = "constructed" <=> C10_Conditions
        /\ pc = "failed" <=> raised # "none"
        /\ pc \in {"constructed", "failed"}

\* two layers of different sparsity accepted without global_sort
C10_Witness ==
    /\ pc = "constructed"
    /\ Len(shape) = 2
    /\ wsparsity[1][0] # wsparsity[2][0]

\* the elements of a list
Range(seq) == {seq[j] : j \in 1 .. Len(seq)}

\* the trainer or the optimizer is missing
MissingTrainer == ~(args.trainer /\ args.optimizer)

\* before __init__ runs: the groups can be generated and pass the sanity check
GroupsWellFormed ==
    /\ GroupGeneration.kind = "ok"
    /\ validate_weight_groups(GroupShapes(GroupGeneration.groups),
                              GroupSparsities(GroupGeneration.groups),
                              cfg.global_sort, cfg.head_hidden_dim)

\* C11 (as stated): construction fails when the criterion is l1_activation,
\* l2_activation or taylorfo and the trainer or the optimizer is missing,
\* and with l1_weight or l2_weight a missing trainer or optimizer never
\* makes construction fail, whatever num_iterations is.
C11_WeightCriteriaNeverNeedTrainer ==
    [][pc = "new" =>
        /\ (cfg.ranking_criteria \in CalibCriteria /\ MissingTrainer) => pc' = "failed"
        /\ (cfg.ranking_criteria \in WeightCriteria /\ GroupsWellFormed)
              => pc' = "constructed"]_vars

\* C11 (amended): construction fails with an assertion error when the
\* trainer or the optimizer is missing and the criterion is l1_activation,
\* l2_activation or taylorfo or num_iterations > 1; with l1_weight or
\* l2_weight and num_iterations = 1 a missing trainer or optimizer never
\* makes construction fail.
C11_TrainerRequirement ==
    [][pc = "new" =>
        /\ (MissingTrainer /\ (cfg.ranking_criteria \in CalibCriteria \/ cfg.num_iterations > 1))
              => (pc' = "failed" /\ raised' = "AssertionError")
        /\ (cfg.ranking_criteria \in WeightCriteria /\ cfg.num_iterations = 1
            /\ GroupsWellFormed)
              => pc' = "constructed"]_vars

\* a weight criterion with several iterations was refused for its missing
\* trainer, with groups that pass every other check
C11_Witness ==
    /\ pc = "failed"
    /\ raised = "AssertionError"
    /\ cfg.ranking_criteria \in WeightCriteria
    /\ cfg.num_iterations > 1
    /\ ~args.trainer
    /\ GroupsWellFormed
    /\ masking_groups = <<>>

\* C12: with attention_name_groups given, an entry that has not exactly 4
\* names makes construction fail with an assertion error before any wrapper
\* joins a group; when every entry has 4 names and the checks on the
\* criterion and the trainer pass, there is one masking group per entry.
C12_NamesMode ==
    (pc # "new" /\ args.attention_name_groups.given) =>
        /\ (\E l \in 1 .. Len(args.attention_name_groups.names) :
                Len(args.attention_name_groups.names[l]) # 4)
              => /\ pc = "failed"
                 /\ raised = "AssertionError"
                 /\ GroupMembers(masking_groups) = {}
        /\ ((\A l \in 1 .. Len(args.attention_name_groups.names) :
                Len(args.attention_name_groups.names[l]) = 4)
            /\ CriterionSupported /\ TrainerCheck)
              => Len(masking_groups) = Len(args.attention_name_groups.names)
        /\ pc = "constructed"
              => Len(masking_groups) = Len(args.attention_name_groups.names)

\* two entries of four names each gave two groups of four wrappers
C12_Witness ==
    /\ pc = "constructed"
    /\ args.attention_name_groups.given
    /\ Len(args.attention_name_groups.names) = 2
    /\ Len(masking_groups) = 2
    /\ \A l \in 1 .. 2 : Len(masking_groups[l]) = 4

\* C13: when the model is traced, a failing trace and a trace that finds no
\* attention group both make construction fail with a RuntimeError, and a
\* constructed pruner has at least one masking group.
C13_GraphModeNeverEmpty ==
    (pc # "new" /\ ~args.attention_name_groups.given) =>
        /\ (CriterionSupported /\ TrainerCheck /\ args.dummy_input
            /\ (~args.trace.ok \/ args.trace.sets = <<>>))
              => (pc = "failed" /\ raised = "RuntimeError")
        /\ pc = "constructed" => Len(masking_groups) > 0

\* C14: after construction modules_wrapper holds the selected wrappers that
\* are members of a masking group, and only those.
C14_ActiveWrappers ==
    pc = "constructed" =>
        /\ Range(modules_wrapper) = Range(hist.selected) \cap GroupMembers(masking_groups)
        /\ GroupMembers(masking_groups) \subseteq Range(modules_wrapper)
        /\ Len(modules_wrapper) = Cardinality(Range(modules_wrapper))

\* the feed-forward module and a whole attention layer were selected by
\* config_list and dropped, the four members of the only group kept
C14_Witness ==
    /\ pc = "constructed"
    /\ Len(hist.selected) = 9
    /\ Len(masking_groups) = 1
    /\ Range(modules_wrapper) = {"q0", "k0", "v0", "o0"}

\* C15: once a compress() call has completed all its iterations, no later
\* step computes scores, updates masks or calls the trainer, and every mask
\* stays as it is.
C15_DoneIsTerminal ==
    [][hist.completed =>
        /\ hist'.last \notin {"calibrate", "update_mask", "finetune"}
        /\ weight_mask' = weight_mask
        /\ bias_mask' = bias_mask]_vars

\* C16: a finetuning call is made only when num_iterations > 1 and only
\* after the masks of its iteration have been applied, and an iteration
\* ends after exactly epochs_per_iteration finetuning calls when
\* num_iterations > 1 and after none when num_iterations = 1.
C16_FinetuneOnlyWhenIterative ==
    [][/\ hist'.last = "finetune"
            => (cfg.num_iterations > 1 /\ hist.masked = pruning_iter
                /\ hist.finetunes < cfg.epochs_per_iteration)
       /\ hist'.last = "end"
            => hist.finetunes = IF cfg.num_iterations > 1
                                THEN cfg.epochs_per_iteration ELSE 0]_vars

\* a run of one iteration ended without a finetuning call, with heads zeroed
C16_Witness ==
    /\ cfg.num_iterations = 1
    /\ pc = "done"
    /\ hist.finetunes = 0
    /\ hist.masked = 0
    /\ \E g \in Groups : ZeroedHeads(g) # {}

\* C17: with a calibration-based criterion the model is in evaluation mode
\* from the calibration call until the mask update has run, and a mask
\* update that returns leaves the training flag at the value it had just
\* before the calibration call.
C17_EvalModeAndRestore ==
    [][NeedsCalibration =>
        /\ hist'.last = "calibrate" => (training' = FALSE /\ hist'.saved = training)
        /\ pc' = "mask" => training' = FALSE
        /\ (hist'.last = "update_mask" /\ raised' = "none")
              => (training = FALSE /\ training' = hist.saved)]_vars

\* a model in training mode was scored in evaluation mode and is back in
\* training mode
C17_Witness ==
    /\ NeedsCalibration
    /\ hist.last = "update_mask"
    /\ raised = "none"
    /\ hist.saved
    /\ training

\* C18: within a compress() call the masker has been reset once per
\* iteration that is over and followed by another one: the number of resets
\* equals the index of the current iteration, and the index of the last
\* iteration after the call; a reset happens after the finetuning calls of
\* its iteration and leads to the scoring of the next one.
C18_ResetBetweenIterations ==
    [][/\ hist'.resets = pruning_iter'
       /\ pc' = "done" => hist'.resets = cfg.num_iterations - 1
       /\ hist'.resets = hist.resets + 1
            => /\ hist.finetunes = cfg.epochs_per_iteration
               /\ pc' = "score"
               /\ pruning_iter' = pruning_iter + 1
               /\ collected' = MaskerReset]_vars

\* the second iteration is being scored after one reset
C18_Witness ==
    /\ pc \in {"score", "mask"}
    /\ pruning_iter = 1
    /\ hist.resets = 1
    /\ hist.last = "end"

\* C19: a calibration call or a mask update of iteration i >= 1 comes after
\* the mask update and all epochs_per_iteration finetuning calls of
\* iteration i-1, a finetuning call of iteration i comes after the mask
\* update of iteration i, and the iteration index only ever moves on by one.
C19_IterationOrder ==
    [][/\ (hist'.last \in {"calibrate", "update_mask"} /\ pruning_iter >= 1)
            => (hist.masked = pruning_iter - 1
                /\ hist.finetunes = cfg.epochs_per_iteration)
       /\ hist'.last = "finetune" => hist.masked = pruning_iter
       /\ hist'.last # "start"
            => (pruning_iter' = pruning_iter
                \/ (pruning_iter' = pruning_iter + 1 /\ hist.masked = pruning_iter))]_vars

\* the masks of the second iteration were applied after the finetuning of
\* the first
C19_Witness ==
    /\ pruning_iter = 1
    /\ hist.last = "update_mask"
    /\ hist.masked = 1
    /\ raised = "none"

\* C20: a step in which a trainer call or a mask computation raises leaves
\* compress() with the exception; no step follows it; a raising trainer
\* call leaves every mask as the earlier mask updates set it.
C20_ErrorsAbort ==
    [][/\ raised = "none"
       /\ raised' # "none"
            => /\ pc' = "failed"
               /\ hist'.last \in {"calibrate", "finetune"}
                    => (weight_mask' = weight_mask /\ bias_mask' = bias_mask)]_vars

\* the trainer raised in a finetuning call and the heads zeroed before it
\* stay zeroed
C20_Witness ==
    /\ pc = "failed"
    /\ raised = "TrainerError"
    /\ hist.last = "finetune"
    /\ hist.masked = 0
    /\ \E g \in Groups : ZeroedHeads(g) # {}

-----------------------------------------------------------------------------
(* update_mask and a masker without a mask *)

-----------------------------------------------------------------------------
(* Construction: what has run when it fails *)

\* the constructor was left by an assertion of validate_weight_groups
ValidatorFailed ==
    /\ pc = "failed"
    /\ ~validate_weight_groups(shape, wsparsity, cfg.global_sort, cfg.head_hidden_dim)

\* C22 as stated: when construction fails on a condition of the group
\* sanity check, neither the graph trace nor a trainer call has run.
C22_FailFast ==
    ValidatorFailed => ~hist.traced /\ hist.trainer_calls = 0

\* C22: when construction fails on a condition of the group sanity check,
\* no trainer call has run, and no graph trace when attention_name_groups
\* was given; without attention_name_groups the trace that found the
\* groups has run.
C22_FailBeforeTraining ==
    ValidatorFailed =>
        /\ hist.trainer_calls = 0
        /\ hist.traced = ~args.attention_name_groups.given

C22_Witness ==
    /\ ValidatorFailed
    /\ args.attention_name_groups.given
    /\ ~hist.traced
    /\ Len(masking_groups) = 2

\* C23: without attention_name_groups the model is unwrapped for the trace
\* only: it is wrapped again whenever the constructor is left, also when
\* the trace fails and the constructor raises.
C23_WrappedOnExit ==
    pc \in {"constructed", "failed"} => wrapped

-----------------------------------------------------------------------------
(* The ranking of the masker *)

\* the masks of layer 0 are those of a mask computation that returned, on
\* the weights it read
JustMasked == hist.last = "call" /\ raised = "none"

\* C24: the heads one mask computation zeroes are the lowest-scoring heads
\* of the layer: no zeroed head scores higher than a head that is kept.
C24_LowestScoring ==
    JustMasked =>
        \A z \in ZeroedHeads(0) : \A k \in Heads(0) \ ZeroedHeads(0) :
            get_head_importance_scores(0)[z] <= get_head_importance_scores(0)[k]

C24_Witness ==
    /\ JustMasked
    /\ NHeads(0) = 3
    /\ \E z \in ZeroedHeads(0) : \E k \in Heads(0) \ ZeroedHeads(0) :
          /\ z > k
          /\ get_head_importance_scores(0)[z] < get_head_importance_scores(0)[k]

\* C25: the L1 and L2 weight scores are taken from the masked weights of
\* the query, key and value projections: a head whose mask is zero scores 0
\* whatever its weights are.
C25_MaskedHeadScoresZero ==
    cfg.ranking_criteria \in WeightCriteria =>
        \A k \in ZeroedHeads(0) : get_head_importance_scores(0)[k] = 0

\* C26: with attention_name_groups given, the wrapper at position k of
\* masking group g is the wrapper that entry g names at position k, in
\* whatever order the model lists its modules; the wrapper the masker takes
\* for output_proj is the one named last.
C26_PositionsFollowNames ==
    (pc = "constructed" /\ args.attention_name_groups.given) =>
        \A g \in 1 .. Len(masking_groups) : \A k \in 1 .. Len(masking_groups[g]) :
            masking_groups[g][k] = args.attention_name_groups.names[g][k]

-----------------------------------------------------------------------------
(* compress(): the trainer calls *)

\* C27: the calibration pass does not update weights: compress() calls the
\* trainer with epoch 0 for calibration only and with an epoch of at least
\* 1 for finetuning only, and the trainer of the example makes no optimizer
\* step at epoch 0, so the weights after a calibration pass are those
\* before it.
C27_CalibrationKeepsWeights ==
    [][/\ hist'.last = "calibrate" => (hist'.trainer_epoch = 0 /\ weight' = weight)
       /\ hist'.last = "finetune" => hist'.trainer_epoch >= 1]_vars

\* the calibration pass of the second iteration has returned, after a
\* finetuning pass with epoch 1
C27_Witness ==
    /\ hist.last = "calibrate"
    /\ pc = "mask"
    /\ pruning_iter = 1
    /\ hist.trainer_epoch = 0

\* C28: with num_iterations = n >= 1 and a trainer that always returns, a
\* call of compress() terminates: it reaches Done, having run update_mask
\* for the iterations 0 .. n-1.
C28_Terminates ==
    (hist.last = "start") ~>
        \/ raised = "TrainerError"
        \/ pc = "done" /\ hist.masked = cfg.num_iterations - 1

-----------------------------------------------------------------------------
(* Masks over the iterations *)

\* C29: a head whose rows a mask update has zeroed stays zeroed after every
\* later mask update, whatever finetuning did to the weights in between.
C29_MasksMonotone ==
    [][(cfg.num_iterations > 1 /\ hist'.last = "call" /\ raised' = "none") =>
           ZeroedHeads(0) \subseteq ZeroedHeads(0)']_vars

-----------------------------------------------------------------------------
(* compress(): a trainer that raises while calibrating *)

\* C30: when the trainer raises in the calibration pass, compress() is left
\* by the exception: update_mask is not called for the iteration, every
\* mask and the registry keep their values, and the model stays in
\* evaluation mode, the saved training flag not put back.  Nothing of
\* compress() runs after the exception.
C30_CalibrationFailure ==
    [][/\ pc # "failed"
       /\ (hist'.last = "calibrate" /\ raised' = "TrainerError") =>
              /\ pc' = "failed"
              /\ hist'.updates = hist.updates
              /\ weight_mask' = weight_mask
              /\ bias_mask' = bias_mask
              /\ pruned_heads' = pruned_heads
              /\ ~training']_vars

\* the calibration pass of the second iteration raised, the model having
\* been in training mode and the first iteration's heads zeroed
C30_Witness ==
    /\ pc = "failed"
    /\ hist.last = "calibrate"
    /\ raised = "TrainerError"
    /\ pruning_iter = 1
    /\ hist.saved
    /\ ~training
    /\ hist.masked = 0
    /\ \E g \in Groups : ZeroedHeads(g) # {}

====
